---- MODULE Spec2Model ----
(***************************************************************************)
(* Worker-pool PSD thumbnail viewer (src/unnamed/part_001) together with   *)
(* the PSD worker it talks to (src/src/workers/lifecycle-worker.js,        *)
(* second half).  The dispatching side is single threaded: every action    *)
(* below is one macrotask of the page (a call of processFiles, the end of  *)
(* a file read, the delivery of one worker message with the microtasks it  *)
(* triggers, a timer, the unmount hook).                                   *)
(*                                                                         *)
(* A worker answers a 'process_psd' message at some later time; the answer *)
(* and its handling by the page are one step (Reply), since the page sees  *)
(* nothing of the worker in between.  Answers of one worker may come in    *)
(* any order: its handler awaits the decoding of each file.                *)
(*                                                                         *)
(* `psdWorker`, read in createWorker's onmessage (lines 277, 299, 306), is *)
(* declared nowhere: evaluating it throws a ReferenceError.  The handler   *)
(* is async and has made all its assignments by then, so the throw ends    *)
(* the handler without any further effect on the state below; no 'cleanup' *)
(* message is ever posted from there and no worker terminated.             *)
(*                                                                         *)
(* The other pages of the application (the single-worker and multi-worker  *)
(* demos, the worker lifecycle page, the viewer that works on the main     *)
(* thread) share nothing with the viewer above; the state of each is one   *)
(* record, and the specifications of one page leave the others alone.      *)
(***************************************************************************)
EXTENDS Integers, Sequences, FiniteSets, Bags, TLC

(* ----------------------------- bounds ---------------------------------- *)
\* number of processFiles calls explored
MaxBatches == 2
\* largest number of files over all calls of processFiles
MaxTotalFiles == 4

(* ------------------------- program constants --------------------------- *)
MAX_WORKERS == 3

\* The pool is filled at most once before the unmount hook empties it and
\* at most once more by continuations that outlive the component.
MaxCreated == 2 * MAX_WORKERS

VARIABLES
    mounted,        \* the component is mounted (onUnmounted has not run)
    thumbnails,     \* thumbnails.value: bag of [id, error]
    isProcessing,   \* isProcessing.value
    totalFiles,     \* totalFiles.value
    processedFiles, \* processedFiles.value
    workerPool,     \* module-level workerPool: sequence of [worker, busy]
    workers,        \* every Worker object ever constructed, by creation order
    pendingFiles,   \* pendingFiles of each processFiles call (closure state)
    activePromises, \* activePromises of each processFiles call (set of ids)
    jobs,           \* per processFiles call, one record per file taken from pendingFiles
    single,         \* pages/WithWebWorker.vue: mounted, worker, the Workers, status
    multi,          \* the multi-worker demo: mounted, workers, the Workers, runs, status
    lifecycle,      \* pages/WorkerLifecycle.vue: mounted, worker, the Workers, status
    plain           \* the main-thread viewer: thumbnails, counters, loop index

\* the state of the worker-pool viewer
viewerVars == <<mounted, thumbnails, isProcessing, totalFiles, processedFiles,
                workerPool, workers, pendingFiles, activePromises, jobs>>

\* the state of the other pages
demoVars == <<single, multi, lifecycle, plain>>

vars == <<mounted, thumbnails, isProcessing, totalFiles, processedFiles,
          workerPool, workers, pendingFiles, activePromises, jobs,
          single, multi, lifecycle, plain>>

(* ------------------------------ helpers -------------------------------- *)
Min(a, b) == IF a <= b THEN a ELSE b

RECURSIVE Sum(_)
Sum(s) == IF s = <<>> THEN 0 ELSE Len(Head(s)) + Sum(Tail(s))

\* the files of a FileList of length n, in order
FileList(n) == [i \in 1..n |-> i]

\* new Worker(...): a live worker with nothing posted to it
NewWorker == [terminated |-> FALSE, \* worker.terminate() has run
              inbox      |-> {},    \* ids of 'process_psd' messages not yet answered
              listeners  |-> {},    \* ids whose messageHandler is attached
              cleanups   |-> 0,     \* 'cleanup' messages not yet acknowledged
              timer      |-> FALSE, \* a setTimeout(terminate, 100) is pending
              faulted    |-> FALSE] \* worker.onerror has fired for it

createWorker(ws) == Append(ws, NewWorker)

\* the entry is pushed twice
PushThumb_Twice(th, id, err) ==
    th (+) SetToBag({[id |-> id, error |-> err]})
       (+) SetToBag({[id |-> id, error |-> err]})

\* thumbnails.value.push({id, ..., error}); the array is kept as the bag of
\* its entries, its order is not modelled
PushThumb(th, id, err) == th (+) SetToBag({[id |-> id, error |-> err]})

(* ------------------- closures of processFiles -------------------------- *)
\* workerPool.find((w) => !w.busy): index of the first idle member, 0 if none
FindIdle(pool) ==
    IF \E i \in DOMAIN pool : ~pool[i].busy
    THEN CHOOSE i \in DOMAIN pool :
             ~pool[i].busy /\ \A j \in 1..(i-1) : pool[j].busy
    ELSE 0

\* getAvailableWorker without the workerPool.length < MAX_WORKERS test
getAvailableWorker_NoCap(pool, ws) ==
    LET i == FindIdle(pool) IN
    IF i # 0
    THEN [worker |-> pool[i].worker,
          pool   |-> [pool EXCEPT ![i].busy = TRUE],
          ws     |-> ws]
    ELSE [worker |-> Len(ws) + 1,
          pool   |-> Append(pool, [worker |-> Len(ws) + 1, busy |-> TRUE]),
          ws     |-> createWorker(ws)]

\* getAvailableWorker: the worker handed out, the pool and the workers after
getAvailableWorker(pool, ws) ==
    LET i == FindIdle(pool) IN
    IF i # 0
    THEN [worker |-> pool[i].worker,
          pool   |-> [pool EXCEPT ![i].busy = TRUE],
          ws     |-> ws]
    ELSE IF Len(pool) < MAX_WORKERS
    THEN [worker |-> Len(ws) + 1,
          pool   |-> Append(pool, [worker |-> Len(ws) + 1, busy |-> TRUE]),
          ws     |-> createWorker(ws)]
    ELSE [worker |-> pool[1].worker,
          pool   |-> pool,
          ws     |-> ws]

\* markWorkerAvailable that leaves the busy flag set
markWorkerAvailable_Never(pool, w) == pool

\* markWorkerAvailable: the first member holding this worker becomes idle
markWorkerAvailable(pool, w) ==
    [i \in DOMAIN pool |->
        IF pool[i].worker = w /\ \A j \in 1..(i-1) : pool[j].worker # w
        THEN [pool[i] EXCEPT !.busy = FALSE]
        ELSE pool[i]]

\* processNextFile without pendingFiles.shift(): the head stays in the queue
processNextFile_NoShift(b, pf, js) ==
    IF pf[b] = <<>>
    THEN [pf |-> pf, jobs |-> js]
    ELSE [pf   |-> pf,
          jobs |-> [js EXCEPT ![b] = Append(@, [worker |-> 0,
                                                st     |-> "reading",
                                                rec    |-> 0])]]

\* processNextFile up to its first await: take the head of pendingFiles,
\* give it a fresh id and start reading it.  The id (Date.now() +
\* Math.random(), a token that is only ever compared for equality) is
\* <<b, f>> for the f-th file of the b-th processFiles call.
processNextFile(b, pf, js) ==
    IF pf[b] = <<>>
    THEN [pf |-> pf, jobs |-> js]
    ELSE [pf   |-> [pf EXCEPT ![b] = Tail(@)],
          jobs |-> [js EXCEPT ![b] = Append(@, [worker |-> 0,
                                                st     |-> "reading",
                                                rec    |-> 0])]]

\* processFiles starts a single file instead of up to MAX_WORKERS
initialBatchSize_One(n) == Min(1, n)

\* the number of processNextFile calls processFiles makes itself
initialBatchSize(n) == Min(MAX_WORKERS, n)

RECURSIVE StartInitialBatch(_, _, _, _)
StartInitialBatch(k, b, pf, js) ==
    IF k = 0
    THEN [pf |-> pf, jobs |-> js]
    ELSE LET r == processNextFile(b, pf, js)
         IN  StartInitialBatch(k - 1, b, r.pf, r.jobs)

(* --------------------------- pool management --------------------------- *)
\* the loop of cleanupWorkerPool without its setTimeout
cleanupWorkers_NoTimer(pool, ws) ==
    [w \in DOMAIN ws |->
        IF \E i \in DOMAIN pool : pool[i].worker = w
        THEN [ws[w] EXCEPT !.cleanups = IF ws[w].terminated THEN @ ELSE @ + 1]
        ELSE ws[w]]

\* the loop of cleanupWorkerPool: every member is posted 'cleanup' (a
\* terminated worker drops what is posted to it) and gets a 100 ms terminate
\* timer
cleanupWorkers(pool, ws) ==
    [w \in DOMAIN ws |->
        IF \E i \in DOMAIN pool : pool[i].worker = w
        THEN [ws[w] EXCEPT !.cleanups = IF ws[w].terminated THEN @ ELSE @ + 1,
                           !.timer = TRUE]
        ELSE ws[w]]

\* cleanupWorkerPool without workerPool.length = 0
cleanupWorkerPool_KeepsPool(pool, ws) ==
    [pool |-> pool, ws |-> cleanupWorkers(pool, ws)]

\* cleanupWorkerPool: the loop, then workerPool.length = 0
cleanupWorkerPool(pool, ws) == [pool |-> <<>>, ws |-> cleanupWorkers(pool, ws)]

\* the loop of initializeWorkerPool: k more idle workers
RECURSIVE FillPool(_, _, _)
FillPool(k, pool, ws) ==
    IF k = 0
    THEN [pool |-> pool, ws |-> ws]
    ELSE FillPool(k - 1,
                  Append(pool, [worker |-> Len(ws) + 1, busy |-> FALSE]),
                  createWorker(ws))

\* initializeWorkerPool: cleanupWorkerPool, then MAX_WORKERS idle workers
initializeWorkerPool(pool, ws) ==
    LET c == cleanupWorkerPool(pool, ws)
    IN  FillPool(MAX_WORKERS, c.pool, c.ws)

(* ----------------------- the other pages at start ---------------------- *)
\* WithWebWorker.vue before onMounted: `worker` is null (0), no Worker yet
\* (posted counts the postMessage calls of startTask)
SingleInit == [mounted |-> "no", worker |-> 0, workers |-> <<>>, status |-> "Idle",
               posted |-> 0]

\* the multi-worker demo before onMounted: `workers` is empty
MultiInit == [mounted |-> "no", workers |-> <<>>, all |-> <<>>, runs |-> <<>>,
              status |-> [kind |-> "Idle", run |-> 0]]

\* WorkerLifecycle.vue: `worker` is null (0)
\* (sent counts the postMessage calls of the page)
LifecycleInit == [mounted |-> TRUE, worker |-> 0, workers |-> <<>>,
                  status |-> <<"Worker not started">>, sent |-> 0]

\* the main-thread viewer: nothing processed yet
\* (i is the loop index, files the length of the list given to the run)
PlainInit == [thumbnails |-> <<>>, isProcessing |-> FALSE, totalFiles |-> 0,
              processedFiles |-> 0, i |-> 0, files |-> 0,
              running |-> FALSE, delayed |-> FALSE]

(* ------------------------------ state ---------------------------------- *)
\* the ids handed out so far
JobIds == UNION {{<<b, f>> : f \in DOMAIN jobs[b]} : b \in DOMAIN jobs}

\* the number of files handed to processFiles so far
SubmittedFiles == Cardinality(JobIds) + Sum(pendingFiles)

Init ==
    /\ mounted = TRUE
    /\ thumbnails = EmptyBag
    /\ isProcessing = FALSE
    /\ totalFiles = 0
    /\ processedFiles = 0
    /\ workerPool = <<>>
    /\ workers = <<>>
    /\ pendingFiles = <<>>
    /\ activePromises = <<>>
    /\ jobs = <<>>
    /\ single = SingleInit
    /\ multi = MultiInit
    /\ lifecycle = LifecycleInit
    /\ plain = PlainInit

\* processFiles(files) with files.length = n > 0 (it returns at once for an
\* empty list): the counters are reset, the pool is filled when it is empty,
\* and the first files start being read
processFiles(n) ==
    LET b    == Len(pendingFiles) + 1
        p    == IF Len(workerPool) = 0
                THEN initializeWorkerPool(workerPool, workers)
                ELSE [pool |-> workerPool, ws |-> workers]
        r    == StartInitialBatch(initialBatchSize(n), b,
                                  Append(pendingFiles, FileList(n)),
                                  Append(jobs, <<>>))
    IN  /\ thumbnails' = EmptyBag
        /\ isProcessing' = TRUE
        /\ totalFiles' = n
        /\ processedFiles' = 0
        /\ workerPool' = p.pool
        /\ workers' = p.ws
        /\ pendingFiles' = r.pf
        /\ activePromises' = Append(activePromises, {})
        /\ jobs' = r.jobs
        /\ UNCHANGED <<mounted, demoVars>>

\* the user drops or selects n files on the mounted page
ProcessFiles(n) ==
    /\ mounted
    /\ Len(pendingFiles) < MaxBatches
    /\ SubmittedFiles + n <= MaxTotalFiles
    /\ processFiles(n)

\* readFileAsArrayBuffer resolved for job <<b, f>>: the worker is acquired,
\* the per-job listener attached and the 'process_psd' message posted
ReadDone(b, f) ==
    /\ <<b, f>> \in JobIds
    /\ jobs[b][f].st = "reading"
    /\ LET g == getAvailableWorker(workerPool, workers)
           w == g.worker
       IN  /\ workerPool' = g.pool
           /\ workers' = [g.ws EXCEPT ![w].listeners = @ \cup {<<b, f>>},
                                      ![w].inbox = IF g.ws[w].terminated
                                                   THEN @ ELSE @ \cup {<<b, f>>}]
           /\ activePromises' = [activePromises EXCEPT ![b] = @ \cup {<<b, f>>}]
           /\ jobs' = [jobs EXCEPT ![b][f].st = "sent", ![b][f].worker = w]
    /\ UNCHANGED <<mounted, thumbnails, isProcessing, totalFiles,
                   processedFiles, pendingFiles, demoVars>>

\* readFileAsArrayBuffer rejected for job <<b, f>>: the catch branch records
\* the failure and goes on with the next pending file
ReadFail(b, f) ==
    /\ <<b, f>> \in JobIds
    /\ jobs[b][f].st = "reading"
    /\ LET r == processNextFile(b, pendingFiles,
                    [jobs EXCEPT ![b][f].st = "done", ![b][f].rec = @ + 1])
       IN  /\ thumbnails' = PushThumb(thumbnails, <<b, f>>, TRUE)
           /\ processedFiles' = processedFiles + 1
           /\ pendingFiles' = r.pf
           /\ jobs' = r.jobs
    /\ UNCHANGED <<mounted, isProcessing, totalFiles, workerPool, workers,
                   activePromises, demoVars>>

\* A job record once an answer carrying its id has been handled: the outcome
\* is recorded once more; when the per-job listener matched, the closure of
\* the job is finished ("done") and lets go of its worker, otherwise a job
\* that was waiting stays behind with its listener attached ("err").
Answered(j, resolved) ==
    [j EXCEPT !.rec = @ + 1,
              !.st = IF resolved THEN "done" ELSE IF @ = "sent" THEN "err" ELSE @,
              !.worker = IF resolved THEN 0 ELSE @]

\* createWorker's worker.onmessage for a 'process_complete' or 'process_error'
\* message carrying id, followed by the per-job messageHandler listeners of
\* that worker and the continuation (processPromise.then) of the one that
\* matches.  kind is "ok" (process_complete with success and both
\* thumbnails), "bad" (any other process_complete) or "err" (process_error).
OnMessage(w, id, kind) ==
    LET done     == processedFiles + 1 >= totalFiles
        resolved == kind # "err" /\ id \in workers[w].listeners
        b        == id[1]
        f        == id[2]
        js       == IF id \in JobIds
                    THEN [jobs EXCEPT ![b][f] = Answered(@, resolved)]
                    ELSE jobs
        r        == processNextFile(b, pendingFiles, js)
    IN  /\ thumbnails' = PushThumb(thumbnails, id, kind # "ok")
        /\ processedFiles' = processedFiles + 1
        /\ isProcessing' = IF done THEN FALSE ELSE isProcessing
        /\ IF resolved
           THEN /\ workers' = [workers EXCEPT ![w].listeners = @ \ {id},
                                              ![w].inbox = @ \ {id}]
                /\ activePromises' = [activePromises EXCEPT ![b] = @ \ {id}]
                /\ workerPool' = markWorkerAvailable(workerPool, w)
                /\ pendingFiles' = r.pf
                /\ jobs' = r.jobs
           ELSE /\ workers' = [workers EXCEPT ![w].inbox = @ \ {id}]
                /\ jobs' = js
                /\ UNCHANGED <<activePromises, workerPool, pendingFiles>>
        /\ UNCHANGED <<mounted, totalFiles, demoVars>>

\* the PSD worker answers the 'process_psd' message id and the page handles
\* the answer
Reply(w, id, kind) ==
    /\ w \in DOMAIN workers
    /\ ~workers[w].terminated
    /\ id \in workers[w].inbox
    /\ OnMessage(w, id, kind)

\* onUnmounted(() => cleanupWorkerPool())
Unmount ==
    /\ mounted
    /\ mounted' = FALSE
    /\ workerPool' = cleanupWorkerPool(workerPool, workers).pool
    /\ workers' = cleanupWorkerPool(workerPool, workers).ws
    /\ UNCHANGED <<thumbnails, isProcessing, totalFiles, processedFiles,
                   pendingFiles, activePromises, jobs, demoVars>>

\* the setTimeout callback of cleanupWorkerPool: workerObj.worker.terminate()
TerminateTimer(w) ==
    /\ w \in DOMAIN workers
    /\ workers[w].timer
    \* timers set with the same delay run in the order they were set
    /\ \A v \in 1..(w - 1) : ~workers[v].timer
    \* what was posted to the worker and not yet handled is discarded with it
    /\ workers' = [workers EXCEPT ![w].timer = FALSE, ![w].terminated = TRUE,
                                  ![w].cleanups = 0]
    /\ UNCHANGED <<mounted, thumbnails, isProcessing, totalFiles, processedFiles,
                   workerPool, pendingFiles, activePromises, jobs, demoVars>>

\* the worker answers a 'cleanup' message with 'cleanup_complete'; the page's
\* handler logs and then evaluates the undeclared psdWorker
CleanupComplete(w) ==
    /\ w \in DOMAIN workers
    /\ ~workers[w].terminated
    /\ workers[w].cleanups > 0
    /\ workers' = [workers EXCEPT ![w].cleanups = @ - 1]
    /\ UNCHANGED <<mounted, thumbnails, isProcessing, totalFiles, processedFiles,
                   workerPool, pendingFiles, activePromises, jobs, demoVars>>

ReplyKinds == {"ok", "bad", "err"}

\* what can happen while the component stays mounted
NextMounted ==
    \/ \E n \in 1..MaxTotalFiles : ProcessFiles(n)
    \/ \E id \in JobIds : ReadDone(id[1], id[2])
    \/ \E id \in JobIds : ReadFail(id[1], id[2])
    \/ \E w \in DOMAIN workers : \E id \in workers[w].inbox :
           \E kind \in ReplyKinds : Reply(w, id, kind)

\* leaving the page: the unmount hook and its terminate timers
NextUnmount ==
    \/ Unmount
    \/ \E w \in DOMAIN workers : TerminateTimer(w)

Next ==
    \/ NextMounted
    \/ NextUnmount
    \/ \E w \in DOMAIN workers : CleanupComplete(w)

Spec == Init /\ [][Next]_vars

\* the component is never unmounted
SpecMounted == Init /\ [][NextMounted]_vars

\* SpecMounted in an environment where every file read comes to an end and
\* every live worker answers every job posted to it
Fairness ==
    /\ \A b \in 1..MaxBatches : \A f \in 1..MaxTotalFiles :
          WF_vars(ReadDone(b, f) \/ ReadFail(b, f))
    /\ \A w \in 1..MaxCreated : \A b \in 1..MaxBatches : \A f \in 1..MaxTotalFiles :
          WF_vars(\E kind \in ReplyKinds : Reply(w, <<b, f>>, kind))

SpecMountedFair == SpecMounted /\ Fairness

\* Spec without the 'cleanup_complete' answers, which change nothing but the
\* count of unanswered 'cleanup' messages of one worker
SpecUnmount == Init /\ [][NextMounted \/ NextUnmount]_vars

(* ------------- a worker that does not keep to the protocol ------------- *)
\* number of messages explored that answer no outstanding job
MaxStale == 1
\* largest number of files in the processFiles call explored with them
MaxStaleFiles == 3

\* an id no processFiles call handed out
UnknownId == <<0, 0>>

\* ids posted to some worker and not answered yet
Outstanding == UNION {workers[w].inbox : w \in DOMAIN workers}

\* jobs whose outcome has been recorded
Recorded == {id \in JobIds : jobs[id[1]][id[2]].rec > 0}

\* worker w emits a process_complete or process_error message whose id
\* belongs to no outstanding job; the page handles it like any other
StaleMessage(w, id, kind) ==
    /\ w \in DOMAIN workers
    /\ ~workers[w].terminated
    /\ id \in (JobIds \cup {UnknownId}) \ Outstanding
    /\ processedFiles - Cardinality(Recorded) < MaxStale
    /\ OnMessage(w, id, kind)

\* one call of processFiles, answered by workers that may emit stale messages
NextProtocol ==
    \/ \E n \in 1..MaxStaleFiles : Len(jobs) = 0 /\ ProcessFiles(n)
    \/ \E id \in JobIds : ReadDone(id[1], id[2])
    \/ \E id \in JobIds : ReadFail(id[1], id[2])
    \/ \E w \in DOMAIN workers : \E id \in workers[w].inbox :
           \E kind \in ReplyKinds : Reply(w, id, kind)
    \/ \E w \in DOMAIN workers : \E id \in JobIds \cup {UnknownId} :
           \E kind \in ReplyKinds : StaleMessage(w, id, kind)

SpecProtocol == Init /\ [][NextProtocol]_vars

(* ------------------- a message that cannot be posted ------------------- *)
\* readFileAsArrayBuffer resolved for job <<b, f>> and worker.postMessage
\* throws (the payload cannot be cloned or transferred): the worker has been
\* acquired and the per-job listener attached by then; the catch branch
\* records the failure and goes on with the next pending file
PostThrows(b, f) ==
    /\ <<b, f>> \in JobIds
    /\ jobs[b][f].st = "reading"
    /\ LET g == getAvailableWorker(workerPool, workers)
           w == g.worker
           r == processNextFile(b, pendingFiles,
                    [jobs EXCEPT ![b][f].st = "thrown", ![b][f].worker = w,
                                 ![b][f].rec = @ + 1])
       IN  /\ workerPool' = g.pool
           /\ workers' = [g.ws EXCEPT ![w].listeners = @ \cup {<<b, f>>}]
           /\ activePromises' = [activePromises EXCEPT ![b] = @ \cup {<<b, f>>}]
           /\ thumbnails' = PushThumb(thumbnails, <<b, f>>, TRUE)
           /\ processedFiles' = processedFiles + 1
           /\ pendingFiles' = r.pf
           /\ jobs' = r.jobs
    /\ UNCHANGED <<mounted, isProcessing, totalFiles, demoVars>>

\* the mounted component with payloads that may fail to be posted
NextPostThrows ==
    \/ NextMounted
    \/ \E id \in JobIds : PostThrows(id[1], id[2])

SpecPostThrows == Init /\ [][NextPostThrows]_vars

(* --------------------- one batch, nothing goes wrong ------------------- *)
\* largest number of files in the batch explored
MaxHappyFiles == 6

\* one call of processFiles; every file is read and every job is answered
\* with a successful process_complete
NextHappy ==
    \/ \E n \in 1..MaxHappyFiles : mounted /\ Len(jobs) = 0 /\ processFiles(n)
    \/ \E id \in JobIds : ReadDone(id[1], id[2])
    \/ \E w \in DOMAIN workers : \E id \in workers[w].inbox : Reply(w, id, "ok")

\* every read ends and every worker answers
HappyFairness ==
    /\ \A f \in 1..MaxHappyFiles : WF_vars(ReadDone(1, f))
    /\ \A w \in 1..MAX_WORKERS : \A f \in 1..MaxHappyFiles :
          WF_vars(Reply(w, <<1, f>>, "ok"))

SpecHappy == Init /\ [][NextHappy]_vars /\ HappyFairness

(* ------------------- one batch, any outcome per file ------------------- *)
\* largest number of files in the batch explored
MaxOrderFiles == 5

\* one call of processFiles; reads end and jobs are answered in any order,
\* each with any outcome
NextBatch ==
    \/ \E n \in 1..MaxOrderFiles : mounted /\ Len(jobs) = 0 /\ processFiles(n)
    \/ \E id \in JobIds : ReadDone(id[1], id[2])
    \/ \E id \in JobIds : ReadFail(id[1], id[2])
    \/ \E w \in DOMAIN workers : \E id \in workers[w].inbox :
           \E kind \in ReplyKinds : Reply(w, id, kind)

SpecBatch == Init /\ [][NextBatch]_vars

(* --------------------------- leaving the page -------------------------- *)
\* largest number of files in the batch that is under way when the
\* component is unmounted
MaxTeardownFiles == 3

\* one call of processFiles, the unmount hook at any time, its timers and
\* the workers' answers to 'cleanup'
NextTeardown ==
    \/ \E n \in 1..MaxTeardownFiles : mounted /\ Len(jobs) = 0 /\ processFiles(n)
    \/ \E id \in JobIds : ReadDone(id[1], id[2])
    \/ \E id \in JobIds : ReadFail(id[1], id[2])
    \/ \E w \in DOMAIN workers : \E id \in workers[w].inbox :
           \E kind \in ReplyKinds : Reply(w, id, kind)
    \/ NextUnmount
    \/ \E w \in DOMAIN workers : CleanupComplete(w)

\* a timer that was set goes off
TimerFairness == \A w \in 1..MaxCreated : WF_vars(TerminateTimer(w))

SpecTeardown == Init /\ [][NextTeardown]_vars /\ TimerFairness

(* ----------------------------- the PSD worker -------------------------- *)
\* processPsdFile: whatever goes wrong while the file is parsed or its
\* thumbnails are drawn is caught and reported in the result
processPsdFile(decodable) == [success |-> decodable, thumbnails |-> decodable]

\* the answer lacks the id of the request
psdOnMessage_NoId(id, decodable, posted) ==
    IF posted
    THEN [type       |-> "process_complete",
          id         |-> UnknownId,
          success    |-> processPsdFile(decodable).success,
          thumbnails |-> processPsdFile(decodable).thumbnails]
    ELSE [type |-> "process_error", id |-> UnknownId,
          success |-> FALSE, thumbnails |-> FALSE]

\* self.onmessage for a 'process_psd' request carrying id: the one message
\* the worker posts.  The result is spread into the data of a
\* 'process_complete' message together with the id; if that cannot be
\* posted, the catch branch posts 'process_error' (whose data has neither a
\* success field nor thumbnails).
psdOnMessage(id, decodable, posted) ==
    IF posted
    THEN [type       |-> "process_complete",
          id         |-> id,
          success    |-> processPsdFile(decodable).success,
          thumbnails |-> processPsdFile(decodable).thumbnails]
    ELSE [type |-> "process_error", id |-> id,
          success |-> FALSE, thumbnails |-> FALSE]

\* the branch of the page's worker.onmessage that a message takes
Kind(m) ==
    IF m.type = "process_error" THEN "err"
    ELSE IF m.success /\ m.thumbnails THEN "ok" ELSE "bad"

\* worker w gets to the end of its handler for request id and the page
\* handles the message it posts
WorkerAnswers(w, id, decodable, posted) ==
    /\ w \in DOMAIN workers
    /\ ~workers[w].terminated
    /\ id \in workers[w].inbox
    /\ LET m == psdOnMessage(id, decodable, posted)
       IN  OnMessage(w, m.id, Kind(m))

\* the mounted component with the PSD worker behind every Worker object
NextWorker ==
    \/ \E n \in 1..MaxTotalFiles : ProcessFiles(n)
    \/ \E id \in JobIds : ReadDone(id[1], id[2])
    \/ \E id \in JobIds : ReadFail(id[1], id[2])
    \/ \E w \in DOMAIN workers : \E id \in workers[w].inbox :
           \E decodable \in BOOLEAN : \E posted \in BOOLEAN :
               WorkerAnswers(w, id, decodable, posted)

SpecWorker == Init /\ [][NextWorker]_vars

(* --------------------------- a worker that faults ---------------------- *)
\* worker.onerror: an error event of worker w (its script fails to load, or
\* an exception escapes in it) reaches the page, which logs it
WorkerError(w) ==
    /\ w \in DOMAIN workers
    /\ ~workers[w].terminated
    /\ ~workers[w].faulted
    /\ workers' = [workers EXCEPT ![w].faulted = TRUE]
    /\ UNCHANGED <<mounted, thumbnails, isProcessing, totalFiles, processedFiles,
                   workerPool, pendingFiles, activePromises, jobs, demoVars>>

\* one batch whose workers may raise error events
NextWorkerError ==
    \/ NextBatch
    \/ \E w \in DOMAIN workers : WorkerError(w)

SpecWorkerError == Init /\ [][NextWorkerError]_vars

(* ------------- the parts of handling one completion, in order ---------- *)
\* what the parts below read and write
Snapshot == [thumbnails     |-> thumbnails,
             processedFiles |-> processedFiles,
             workerPool     |-> workerPool,
             pendingFiles   |-> pendingFiles,
             jobs           |-> jobs]

\* first listener, worker.onmessage: the outcome is recorded
recordOutcome(s, id, kind) ==
    [s EXCEPT !.thumbnails = PushThumb(@, id, kind # "ok"),
              !.processedFiles = @ + 1,
              !.jobs = [@ EXCEPT ![id[1]][id[2]] = Answered(@, TRUE)]]

\* second listener, messageHandler, resolves processPromise; its
\* continuation first marks the worker available ...
releaseWorker(s, w) == [s EXCEPT !.workerPool = markWorkerAvailable(@, w)]

\* ... and then calls processNextFile
takeNext(s, b) ==
    [s EXCEPT !.pendingFiles = processNextFile(b, s.pendingFiles, s.jobs).pf,
              !.jobs = processNextFile(b, s.pendingFiles, s.jobs).jobs]

(* ================= the single-worker demo (WithWebWorker.vue) =========== *)
(* single.worker is the page's `worker` variable: 0 for null, otherwise the *)
(* index in single.workers of the Worker it refers to.  A Worker record     *)
(* keeps whether terminate() was called on it and how many tasks posted to  *)
(* it have no result yet; a terminated Worker never answers.                *)

\* startTask calls explored
MaxSingleTasks == 5

\* new Worker(worker-ui-demo.js) in createWorker
SingleWorker == [terminated |-> FALSE, tasks |-> 0]

\* worker.terminate() on the Worker the page's variable refers to
singleTerminate(ws, w) ==
    IF w = 0 THEN ws ELSE [ws EXCEPT ![w].terminated = TRUE]

\* the handler with the reference kept after terminate()
singleOnMessage_KeepsRef(s) ==
    IF s.worker # 0
    THEN [s EXCEPT !.workers = singleTerminate(s.workers, s.worker),
                   !.status = "Done (Worker terminated)"]
    ELSE [s EXCEPT !.status = "Done"]

\* newWorker.onmessage: show the result; if (worker) terminate it and null it
singleOnMessage(s) ==
    IF s.worker # 0
    THEN [s EXCEPT !.workers = singleTerminate(s.workers, s.worker),
                   !.worker = 0,
                   !.status = "Done (Worker terminated)"]
    ELSE [s EXCEPT !.status = "Done"]

\* onMounted: worker = createWorker()
SingleMount ==
    /\ single.mounted = "no"
    /\ single' = [single EXCEPT !.mounted = "yes",
                                !.workers = Append(@, SingleWorker),
                                !.worker = Len(single.workers) + 1]
    /\ UNCHANGED <<viewerVars, multi, lifecycle, plain>>

\* startTask: create a Worker if there is none, post one task to `worker`
SingleStartTask ==
    /\ single.mounted = "yes"
    /\ single.posted < MaxSingleTasks
    /\ LET ws == IF single.worker = 0
                 THEN Append(single.workers, SingleWorker)
                 ELSE single.workers
           w  == IF single.worker = 0 THEN Len(ws) ELSE single.worker
       IN  single' = [single EXCEPT !.status = "Working",
                                    !.workers = [ws EXCEPT ![w].tasks = @ + 1],
                                    !.worker = w,
                                    !.posted = @ + 1]
    /\ UNCHANGED <<viewerVars, multi, lifecycle, plain>>

\* worker-ui-demo.js finishes its oldest task and posts the result; the page
\* runs the onmessage handler of that Worker
SingleResult(w) ==
    /\ w \in 1..Len(single.workers)
    /\ ~single.workers[w].terminated
    /\ single.workers[w].tasks > 0
    /\ single' = singleOnMessage([single EXCEPT !.workers[w].tasks = @ - 1])
    /\ UNCHANGED <<viewerVars, multi, lifecycle, plain>>

\* onUnmounted: if (worker) terminate it and null it
SingleUnmount ==
    /\ single.mounted = "yes"
    /\ single' = [single EXCEPT !.mounted = "gone",
                                !.workers = singleTerminate(@, single.worker),
                                !.worker = 0]
    /\ UNCHANGED <<viewerVars, multi, lifecycle, plain>>

NextSingle ==
    \/ SingleMount
    \/ SingleStartTask
    \/ \E w \in 1..Len(single.workers) : SingleResult(w)
    \/ SingleUnmount

SpecSingle == Init /\ [][NextSingle]_vars


(* ============== double-precision arithmetic of startTask ================ *)
(* startTask computes the ranges with JavaScript numbers: 5e9 / count,      *)
(* index * iterationsPerWorker and Math.floor.  A positive double is kept   *)
(* as its 53-bit significand (most significant bit first) and the number of *)
(* those bits that stand before the binary point; division and product are  *)
(* rounded to nearest, ties to even, as IEEE 754 does.                      *)

\* bits of a double's significand
SignificandBits == 53

\* digits of a product handled at once
ChunkBits == 12

\* number of binary digits of a natural number below 2^30
BitLength(n) == CHOOSE len \in 0..30 : n < 2^len /\ (len = 0 \/ 2^(len - 1) <= n)

\* binary digits of a natural number, most significant first (<<>> for 0)
NatBits(n) == [k \in 1..BitLength(n) |-> (n \div 2^(BitLength(n) - k)) % 2]

RECURSIVE BitsToNat(_)
\* the natural number written by (few) digits
BitsToNat(bits) ==
    IF bits = <<>> THEN 0
    ELSE 2 * BitsToNat(SubSeq(bits, 1, Len(bits) - 1)) + bits[Len(bits)]

Reverse(s) == [n \in 1..Len(s) |-> s[Len(s) + 1 - n]]

RECURSIVE TwoToThe(_, _)
\* 2^n modulo c
TwoToThe(n, c) ==
    IF n = 0 THEN 1 % c
    ELSE LET half == TwoToThe(n \div 2, c)
         IN  (half * half * (IF n % 2 = 1 THEN 2 ELSE 1)) % c

\* what is left of r / c after n binary digits (0 when the digits are exact)
FractionRest(r, c, n) == (r * TwoToThe(n, c)) % c

\* the first n binary digits of r / c after the point, for r < c
FractionBits(r, c, n) ==
    [k \in 1..n |-> (2 * FractionRest(r, c, k - 1)) \div c]

RECURSIVE LeadingZeros(_)
LeadingZeros(bits) ==
    IF bits = <<>> \/ Head(bits) = 1 THEN 0 ELSE 1 + LeadingZeros(Tail(bits))

RECURSIVE TimesSmall(_, _, _)
\* digits (least significant first) times a small natural number, plus carry
TimesSmall(lsb, k, carry) ==
    IF Len(lsb) <= ChunkBits
    THEN LET v == BitsToNat(Reverse(lsb)) * k + carry
         IN  [n \in 1..Len(lsb) |-> (v \div 2^(n - 1)) % 2]
                \o Reverse(NatBits(v \div 2^Len(lsb)))
    ELSE LET low == TimesSmall(SubSeq(lsb, 1, ChunkBits), k, carry)
         IN  SubSeq(low, 1, ChunkBits)
                \o TimesSmall(SubSeq(lsb, ChunkBits + 1, Len(lsb)), k,
                              BitsToNat(Reverse(SubSeq(low, ChunkBits + 1, Len(low)))))

\* round digits that start with a 1 (point after the first `point` digits)
\* to a double; sticky says that nonzero digits follow those given
RoundToDouble(bits, point, sticky) ==
    IF Len(bits) <= SignificandBits
    THEN [bits  |-> bits \o [n \in 1..(SignificandBits - Len(bits)) |-> 0],
          point |-> point]
    ELSE LET kept  == SubSeq(bits, 1, SignificandBits)
             guard == bits[SignificandBits + 1]
             rest  == \/ sticky
                      \/ \E n \in (SignificandBits + 2)..Len(bits) : bits[n] = 1
             up    == guard = 1 /\ (rest \/ kept[SignificandBits] = 1)
             sum   == Reverse(TimesSmall(Reverse(kept), 1, 1))
         IN  IF ~up THEN [bits |-> kept, point |-> point]
             ELSE IF Len(sum) > SignificandBits
                  THEN [bits |-> SubSeq(sum, 1, SignificandBits), point |-> point + 1]
                  ELSE [bits |-> sum, point |-> point]

\* the double n / c for naturals n >= 1, c >= 1
DoubleDivide(n, c) ==
    LET whole  == NatBits(n \div c)
        digits == SignificandBits + 1 + c
        all    == whole \o FractionBits(n % c, c, digits)
        z      == LeadingZeros(all)
    IN  RoundToDouble(SubSeq(all, z + 1, Len(all)), Len(whole) - z,
                      FractionRest(n % c, c, digits) # 0)

\* the double k * x for a natural k >= 1 and a double x
DoubleTimes(k, x) ==
    LET product == Reverse(TimesSmall(Reverse(x.bits), k, 0))
    IN  RoundToDouble(product, x.point + (Len(product) - SignificandBits), FALSE)

\* Math.floor of a non-negative double smaller than 2^31
Floor(x) ==
    IF x.point <= 0 THEN 0 ELSE BitsToNat(SubSeq(x.bits, 1, Min(x.point, SignificandBits)))

\* Math.floor(index * iterationsPerWorker), iterationsPerWorker = n / count
floorShare(index, n, count) ==
    IF index = 0 THEN 0 ELSE Floor(DoubleTimes(index, DoubleDivide(n, count)))


(* ======================= the multi-worker demo ========================== *)
(* multi.workers is the page's `workers` array (indexes into multi.all, the *)
(* Workers ever created).  Each run of startTask has its own closure of     *)
(* createWorkers: completedWorkers, totalResult (the Workers whose result   *)
(* was added) and the number of times its combined status was shown.        *)

\* largest worker count of the number input and its buttons
MaxWorkerCount == 16

\* startTask calls explored, worker counts explored with results, and the
\* total iteration counts explored in place of the literal 5e9
MaxRuns == 2
MaxCount == 3
MaxIterations == 16

\* worker-ui-demo.js: the range a message makes the worker iterate (a field
\* the message lacks is undefined after the destructuring)
workerRange(data) ==
    IF "startIndex" \in DOMAIN data /\ "endIndex" \in DOMAIN data
    THEN [start |-> data.startIndex, end |-> data.endIndex]
    ELSE [start |-> 0, end |-> data.iterations - 1]

\* WithoutWebWorker.vue: the indexes heavyCompute(n) iterates
heavyComputeIndexes(n) == 0..(n - 1)

\* the worker's loop: the indexes of a range
rangeIndexes(w) == w.start..w.end

\* the message with an endIndex one too far
taskMessage_NoMinusOne(index, count, n) ==
    IF count = 1
    THEN [iterations |-> n]
    ELSE [startIndex |-> floorShare(index, n, count),
          endIndex   |-> floorShare(index + 1, n, count)]

\* the message startTask posts to the worker at `index` (0-based)
taskMessage(index, count, n) ==
    IF count = 1
    THEN [iterations |-> n]
    ELSE [startIndex |-> floorShare(index, n, count),
          endIndex   |-> floorShare(index + 1, n, count) - 1]

\* terminate() without emptying the array
terminateAllWorkers_KeepsList(m) ==
    [m EXCEPT !.all = [w \in 1..Len(m.all) |->
                          IF \E k \in 1..Len(m.workers) : m.workers[k] = w
                          THEN [m.all[w] EXCEPT !.terminated = TRUE]
                          ELSE m.all[w]]]

\* the array emptied without terminate()
terminateAllWorkers_OnlyEmpties(m) ==
    [m EXCEPT !.workers = <<>>]

\* terminateAllWorkers: terminate every Worker in `workers`, then workers = []
terminateAllWorkers(m) ==
    [m EXCEPT !.all = [w \in 1..Len(m.all) |->
                          IF \E k \in 1..Len(m.workers) : m.workers[k] = w
                          THEN [m.all[w] EXCEPT !.terminated = TRUE]
                          ELSE m.all[w]],
              !.workers = <<>>]

\* createSingleWorker's onmessage: show the result, terminate all workers
singleModeOnMessage(m, r) ==
    [terminateAllWorkers([m EXCEPT !.status = [kind |-> "Done", run |-> r]])
        EXCEPT !.status = [kind |-> "Done (Worker terminated)", run |-> r]]

\* createWorkers' onmessage for Worker w of run r: accumulate, count, and
\* when completedWorkers === count show the combined result and terminate
multiModeOnMessage(m, r, w) ==
    LET acc == [m EXCEPT !.runs[r].totalResult = @ \cup {w},
                         !.runs[r].completedWorkers = @ + 1]
    IN  IF acc.runs[r].completedWorkers = acc.runs[r].count
        THEN [terminateAllWorkers(
                 [acc EXCEPT !.status = [kind |-> "All done", run |-> r],
                             !.runs[r].shown = @ + 1])
                EXCEPT !.status = [kind |-> "All done (Workers terminated)", run |-> r]]
        ELSE acc

\* onMounted: only the counter and the animation start
MultiMount ==
    /\ multi.mounted = "no"
    /\ multi' = [multi EXCEPT !.mounted = "yes"]
    /\ UNCHANGED <<viewerVars, single, lifecycle, plain>>

\* startTask with numWorkers = count: terminate the existing workers, then
\* create and start one worker, or count workers with one range each
MultiStartTask(count, n) ==
    /\ multi.mounted = "yes"
    /\ Len(multi.runs) < MaxRuns
    /\ LET r     == Len(multi.runs) + 1
           old   == terminateAllWorkers(
                        [multi EXCEPT !.status = [kind |-> "Working", run |-> r]])
           made  == [index \in 1..count |->
                        LET range == workerRange(taskMessage(index - 1, count, n))
                        IN  [run |-> r, terminated |-> FALSE, pending |-> TRUE,
                             start |-> range.start, end |-> range.end,
                             reported |-> 0]]
       IN  multi' = [old EXCEPT
                        !.all = old.all \o made,
                        !.workers = [index \in 1..count |-> Len(old.all) + index],
                        !.runs = Append(@, [count |-> count, iterations |-> n,
                                            completedWorkers |-> 0,
                                            totalResult |-> {}, shown |-> 0])]
    /\ UNCHANGED <<viewerVars, single, lifecycle, plain>>

\* a Worker finishes its range and posts its result; the page runs the
\* onmessage handler that was attached to that Worker
MultiResult(w) ==
    /\ w \in 1..Len(multi.all)
    /\ ~multi.all[w].terminated
    /\ multi.all[w].pending
    /\ LET got == [multi EXCEPT !.all[w].pending = FALSE,
                                !.all[w].reported = @ + 1]
           r   == multi.all[w].run
       IN  multi' = IF multi.runs[r].count = 1
                    THEN singleModeOnMessage(got, r)
                    ELSE multiModeOnMessage(got, r, w)
    /\ UNCHANGED <<viewerVars, single, lifecycle, plain>>

\* onUnmounted: terminateAllWorkers()
MultiUnmount ==
    /\ multi.mounted = "yes"
    /\ multi' = [terminateAllWorkers(multi) EXCEPT !.mounted = "gone"]
    /\ UNCHANGED <<viewerVars, single, lifecycle, plain>>

NextMulti ==
    \/ MultiMount
    \/ \E count \in 1..MaxCount : MultiStartTask(count, MaxIterations)
    \/ \E w \in 1..Len(multi.all) : MultiResult(w)
    \/ MultiUnmount

SpecMulti == Init /\ [][NextMulti]_vars

\* one startTask with any worker count of the input and any total
NextRanges ==
    \/ MultiMount
    \/ \E count \in 1..MaxWorkerCount, n \in 1..MaxIterations :
          Len(multi.runs) = 0 /\ MultiStartTask(count, n)
    \/ MultiUnmount

SpecRanges == Init /\ [][NextRanges]_vars


(* ================ the worker lifecycle page and its worker ============== *)
(* lifecycle.worker is the page's `worker` variable (0 for null, otherwise  *)
(* an index into lifecycle.workers).  A Worker record holds the messages    *)
(* posted to it and not yet handled (inbox), the PONG timeouts it has set   *)
(* (timers), every message it has posted (posted) and those of them the     *)
(* page has not received (outbox).  The script of lifecycle-worker.js       *)
(* assigns self.onmessage twice; the second assignment replaces the first.  *)

\* Workers created and messages sent on the page
MaxLifecycleWorkers == 2
MaxLifecycleMessages == 3

LifecycleWorker == [terminated |-> FALSE, started |-> FALSE, inbox |-> <<>>,
                    timers |-> <<>>, posted |-> <<>>, outbox |-> <<>>]

\* what a handler does with one message
NoEffect == [post |-> <<>>, timers |-> <<>>, throws |-> FALSE]

\* the first self.onmessage of the script (the lifecycle protocol)
lifecycleOnMessage(data) ==
    IF "type" \in DOMAIN data
    THEN IF data.type = "PING"
         THEN [NoEffect EXCEPT !.timers = <<data.data>>]
         ELSE IF data.type = "ERROR"
              THEN [NoEffect EXCEPT !.throws = TRUE]
              ELSE [NoEffect EXCEPT !.post =
                       <<[type |-> "UNKNOWN_COMMAND", data |-> data.type]>>]
    ELSE [NoEffect EXCEPT !.post = <<[type |-> "ERROR", data |-> "malformed"]>>]

\* the second self.onmessage of the script (the PSD protocol): it answers
\* 'process_psd' and 'cleanup' and does nothing for any other message
psdProtocolOnMessage(data) ==
    IF "type" \in DOMAIN data /\ data.type = "process_psd"
    THEN [NoEffect EXCEPT !.post =
             <<[type |-> psdOnMessage(data.data, TRUE, TRUE).type, data |-> data.data]>>]
    ELSE IF "type" \in DOMAIN data /\ data.type = "cleanup"
         THEN [NoEffect EXCEPT !.post = <<[type |-> "cleanup_complete", data |-> 0]>>]
         ELSE NoEffect

\* the assignments to self.onmessage in the order the script makes them
handlerAssignments == <<"lifecycle", "psd">>

\* the handler in place once the script has run: the last one assigned
installedOnMessage(data) ==
    IF handlerAssignments[Len(handlerAssignments)] = "psd"
    THEN psdProtocolOnMessage(data)
    ELSE lifecycleOnMessage(data)

\* terminate() with the reference kept
lifecycleTerminate_KeepsRef(l) ==
    IF l.worker = 0 THEN l
    ELSE [l EXCEPT !.workers[l.worker].terminated = TRUE,
                   !.status = <<"Worker terminated">>]

\* terminateWorker: nothing without a worker, else terminate() and null
lifecycleTerminate(l) ==
    IF l.worker = 0 THEN l
    ELSE [l EXCEPT !.workers[l.worker].terminated = TRUE,
                   !.status = <<"Worker terminated">>,
                   !.worker = 0]

\* createWorker: terminate an existing worker first; `new Worker` may throw
LcCreateWorker(ok) ==
    /\ lifecycle.mounted
    /\ Len(lifecycle.workers) < MaxLifecycleWorkers
    /\ LET l == lifecycleTerminate(lifecycle)
       IN  lifecycle' =
              IF ok
              THEN [l EXCEPT !.workers = Append(@, LifecycleWorker),
                             !.worker = Len(l.workers) + 1,
                             !.status = <<"Worker created">>]
              ELSE [l EXCEPT !.status = <<"Failed to create worker">>]
    /\ UNCHANGED <<viewerVars, single, multi, plain>>

\* sendMessage: a PING with data of its own, if there is a worker
LcSendMessage ==
    /\ lifecycle.mounted
    /\ lifecycle.sent < MaxLifecycleMessages
    /\ lifecycle' =
          IF lifecycle.worker = 0 THEN lifecycle
          ELSE [lifecycle EXCEPT
                   !.workers[lifecycle.worker].inbox =
                       Append(@, [type |-> "PING", data |-> lifecycle.sent + 1]),
                   !.sent = @ + 1]
    /\ UNCHANGED <<viewerVars, single, multi, plain>>

\* causeError: an ERROR instruction, if there is a worker
LcCauseError ==
    /\ lifecycle.mounted
    /\ lifecycle.sent < MaxLifecycleMessages
    /\ lifecycle' =
          IF lifecycle.worker = 0 THEN lifecycle
          ELSE [lifecycle EXCEPT
                   !.workers[lifecycle.worker].inbox = Append(@, [type |-> "ERROR"]),
                   !.sent = @ + 1]
    /\ UNCHANGED <<viewerVars, single, multi, plain>>

\* the Terminate button
LcTerminateWorker ==
    /\ lifecycle.mounted
    /\ lifecycle' = lifecycleTerminate(lifecycle)
    /\ UNCHANGED <<viewerVars, single, multi, plain>>

\* onUnmounted: if (worker) terminate it and null it
LcUnmount ==
    /\ lifecycle.mounted
    /\ lifecycle' = [lifecycle EXCEPT
                        !.mounted = FALSE,
                        !.workers = IF lifecycle.worker = 0 THEN @
                                    ELSE [@ EXCEPT ![lifecycle.worker].terminated = TRUE],
                        !.worker = 0]
    /\ UNCHANGED <<viewerVars, single, multi, plain>>

\* the worker's script runs: INIT is posted and the handlers are assigned
LcWorkerStart(w) ==
    /\ w \in 1..Len(lifecycle.workers)
    /\ ~lifecycle.workers[w].terminated
    /\ ~lifecycle.workers[w].started
    /\ LET init == [type |-> "INIT", data |-> "initialized"]
       IN  lifecycle' = [lifecycle EXCEPT !.workers[w].started = TRUE,
                                          !.workers[w].posted = Append(@, init),
                                          !.workers[w].outbox = Append(@, init)]
    /\ UNCHANGED <<viewerVars, single, multi, plain>>

\* what the worker's event loop can run next
WorkerTasks(w) ==
    (IF lifecycle.workers[w].inbox # <<>> THEN {"message"} ELSE {})
       \cup (IF lifecycle.workers[w].timers # <<>> THEN {"timer"} ELSE {})

\* the worker runs one task: the installed handler on its oldest message
\* (an uncaught error reaches the page as an error event), or the oldest
\* timeout, which posts the PONG
LcWorkerStep(w) ==
    /\ w \in 1..Len(lifecycle.workers)
    /\ ~lifecycle.workers[w].terminated
    /\ lifecycle.workers[w].started
    /\ \E task \in WorkerTasks(w) :
          LET me   == lifecycle.workers[w]
              done == installedOnMessage(Head(me.inbox))
              out  == IF task = "timer"
                      THEN <<[type |-> "PONG", data |-> Head(me.timers)]>>
                      ELSE done.post \o
                           (IF done.throws THEN <<[type |-> "(error event)"]>> ELSE <<>>)
          IN  lifecycle' = [lifecycle EXCEPT
                  !.workers[w].inbox  = IF task = "timer" THEN @ ELSE Tail(@),
                  !.workers[w].timers = IF task = "timer" THEN Tail(@)
                                        ELSE @ \o done.timers,
                  !.workers[w].posted = @ \o out,
                  !.workers[w].outbox = @ \o out]
    /\ UNCHANGED <<viewerVars, single, multi, plain>>

\* the page receives the oldest message of a Worker that was not terminated:
\* worker.onmessage, or worker.onerror for an error event
LcDeliver(w) ==
    /\ w \in 1..Len(lifecycle.workers)
    /\ ~lifecycle.workers[w].terminated
    /\ lifecycle.workers[w].outbox # <<>>
    /\ LET m == Head(lifecycle.workers[w].outbox)
       IN  lifecycle' = [lifecycle EXCEPT
               !.workers[w].outbox = Tail(@),
               !.status = IF m.type = "(error event)"
                          THEN <<"Worker error occurred">>
                          ELSE <<"Last worker message", m.type>>]
    /\ UNCHANGED <<viewerVars, single, multi, plain>>

NextLifecycle ==
    \/ \E ok \in BOOLEAN : LcCreateWorker(ok)
    \/ LcSendMessage
    \/ LcCauseError
    \/ LcTerminateWorker
    \/ LcUnmount
    \/ \E w \in 1..Len(lifecycle.workers) : LcWorkerStart(w)
    \/ \E w \in 1..Len(lifecycle.workers) : LcWorkerStep(w)
    \/ \E w \in 1..Len(lifecycle.workers) : LcDeliver(w)

SpecLifecycle == Init /\ [][NextLifecycle]_vars


(* ====================== the main-thread viewer ========================== *)
(* processFiles of the viewer without workers: one sequential loop over the *)
(* files.  plain.i is the 0-based loop index; a file is named by its        *)
(* position in the list.  The stress-test variant waits after a successful  *)
(* push before it reaches the finally block of the iteration.               *)

\* files of the one run explored
MaxPlainFiles == 5

\* the entry put first instead of last
plainPush_Unshift(p, ok) ==
    [p EXCEPT !.thumbnails = <<[file |-> p.i + 1, error |-> ~ok]>> \o @]

\* thumbnails.value.push(...) of the try branch (ok) or the catch branch
plainPush(p, ok) ==
    [p EXCEPT !.thumbnails = Append(@, [file |-> p.i + 1, error |-> ~ok])]

\* finally of the iteration: processedFiles++; the loop goes on, or ends and
\* the outer finally sets isProcessing to false
plainFinally(p) ==
    LET q == [p EXCEPT !.processedFiles = @ + 1, !.i = @ + 1, !.delayed = FALSE]
    IN  IF q.i < q.files THEN q
        ELSE [q EXCEPT !.isProcessing = FALSE, !.running = FALSE]

\* processFiles(files) with n files, up to the first await: nothing for an
\* empty list, else the state is reset and the loop starts
PlainProcessFiles(n) ==
    /\ ~plain.running
    /\ plain.files = 0
    /\ plain' = IF n = 0 THEN plain
                ELSE [plain EXCEPT !.thumbnails = <<>>,
                                   !.isProcessing = TRUE,
                                   !.totalFiles = n,
                                   !.processedFiles = 0,
                                   !.i = 0, !.files = n,
                                   !.running = TRUE]
    /\ UNCHANGED <<viewerVars, single, multi, lifecycle>>

\* the awaits of the current file settle: the entry is pushed by the try
\* branch (ok) or by the catch branch; unless the try branch then waits
\* for its timeout (wait), the finally block runs at once
PlainFileSettles(ok, wait) ==
    /\ plain.running
    /\ ~plain.delayed
    /\ plain' = IF ok /\ wait
                THEN [plainPush(plain, ok) EXCEPT !.delayed = TRUE]
                ELSE plainFinally(plainPush(plain, ok))
    /\ UNCHANGED <<viewerVars, single, multi, lifecycle>>

\* the timeout after a successful push expires: the finally block runs
PlainDelayEnds ==
    /\ plain.running
    /\ plain.delayed
    /\ plain' = plainFinally(plain)
    /\ UNCHANGED <<viewerVars, single, multi, lifecycle>>

NextPlain ==
    \/ \E n \in 0..MaxPlainFiles : PlainProcessFiles(n)
    \/ \E ok \in BOOLEAN, wait \in BOOLEAN : PlainFileSettles(ok, wait)
    \/ PlainDelayEnds

\* a promise that is awaited settles and a timeout expires
PlainFairness ==
    /\ WF_vars(\E ok \in BOOLEAN, wait \in BOOLEAN : PlainFileSettles(ok, wait))
    /\ WF_vars(PlainDelayEnds)

SpecPlain == Init /\ [][NextPlain]_vars /\ PlainFairness


(* ======================= properties of the viewer ====================== *)
\* files.length of the b-th processFiles call
Files(b) == Len(jobs[b]) + Len(pendingFiles[b])

\* every file read has finished and every posted job has been answered
Settled ==
    /\ \A id \in JobIds : jobs[id[1]][id[2]].st # "reading"
    /\ Outstanding = {}

\* number of pool members whose busy flag is set
BusyWorkers == Cardinality({i \in DOMAIN workerPool : workerPool[i].busy})

\* every pool member is busy and the pool is at capacity
Saturated ==
    /\ Len(workerPool) = MAX_WORKERS
    /\ \A i \in DOMAIN workerPool : workerPool[i].busy

\* jobs of call b posted to a worker and not answered
InFlight(b) == Cardinality({f \in DOMAIN jobs[b] : jobs[b][f].st = "sent"})

\* number of entries of thumbnails carrying this id
Entries(id) == CopiesIn([id |-> id, error |-> TRUE], thumbnails)
             + CopiesIn([id |-> id, error |-> FALSE], thumbnails)

\* C1: no worker is posted a 'process_psd' job while a job posted to it
\* earlier is still unanswered, i.e. no worker ever holds two unanswered jobs.
C1_AtMostOnePerUnit ==
    \A w \in DOMAIN workers : Cardinality(workers[w].inbox) <= 1

\* C2: once every read has finished and every posted job has been answered,
\* the (only) batch is complete: processedFiles = totalFiles and thumbnails
\* holds exactly one entry for each of its files.
C2_Completeness ==
    (Len(jobs) = 1 /\ Settled) =>
        /\ processedFiles = totalFiles
        /\ \A f \in 1..Files(1) : Entries(<<1, f>>) = 1

\* C3: processedFiles never exceeds totalFiles, and between two calls of
\* processFiles it never decreases.
C3_Progress ==
    [][/\ processedFiles' <= totalFiles'
       /\ Len(jobs') = Len(jobs) => processedFiles' >= processedFiles]_vars

\* C4: workerPool never holds more than MAX_WORKERS members.
C4_PoolBounded == Len(workerPool) <= MAX_WORKERS

\* C4 witness: after the unmount hook emptied the pool, continuations of the
\* interrupted batch have filled it up to capacity again with new workers.
C4_Witness ==
    /\ ~mounted
    /\ Len(workerPool) = MAX_WORKERS
    /\ Len(workers) = MaxCreated

\* C5: a job is never posted to a worker in a step that starts with every
\* pool member busy and the pool at capacity.
C5_NoHandOutWhenSaturated ==
    [][\A id \in JobIds :
          (jobs[id[1]][id[2]].st = "reading" /\ jobs'[id[1]][id[2]].st = "sent")
              => ~Saturated]_vars

\* the first MAX_WORKERS files of call b have all been read (or failed to)
GapOver(b) ==
    \A f \in 1..MAX_WORKERS : f \in DOMAIN jobs[b] /\ jobs[b][f].st # "reading"

\* C6: for a single batch of at least MAX_WORKERS files, once the initial
\* jobs have been started, whenever pendingFiles is non-empty MAX_WORKERS
\* workers are busy and the number of in-flight jobs is
\* min(MAX_WORKERS, pending + in-flight).
C6_Saturation ==
    \A b \in DOMAIN jobs :
        (/\ Len(jobs) = 1
         /\ Files(b) >= MAX_WORKERS
         /\ pendingFiles[b] # <<>>
         /\ GapOver(b))
        => /\ BusyWorkers = MAX_WORKERS
           /\ InFlight(b) = Min(MAX_WORKERS, Len(pendingFiles[b]) + InFlight(b))

\* C7: whatever messages the workers deliver, no job id has its outcome
\* recorded twice: it has at most one entry in thumbnails and processedFiles
\* was incremented at most once for it.
C7_RecordedOnce ==
    \A id \in JobIds :
        /\ jobs[id[1]][id[2]].rec <= 1
        /\ Entries(id) <= 1

\* C8: handling a process_complete or process_error message whose id belongs
\* to no outstanding job leaves thumbnails and processedFiles unchanged.
C8_StaleIgnored ==
    [][(\E w \in DOMAIN workers : \E id \in JobIds \cup {UnknownId} :
            \E kind \in ReplyKinds : StaleMessage(w, id, kind))
        => UNCHANGED <<thumbnails, processedFiles>>]_vars

\* C9: when a job is answered with process_error, its failure is recorded
\* and the busy flag of the worker it was posted to is false afterwards.
C9_ErrorReleases ==
    [][\A id \in JobIds :
          (jobs[id[1]][id[2]].st = "sent" /\ jobs'[id[1]][id[2]].st = "err")
          => /\ jobs'[id[1]][id[2]].rec = jobs[id[1]][id[2]].rec + 1
             /\ \A i \in DOMAIN workerPool' :
                    workerPool'[i].worker = jobs[id[1]][id[2]].worker
                        => ~workerPool'[i].busy]_vars

\* the files of the latest call answered with process_error
ErrFiles == {f \in DOMAIN jobs[Len(jobs)] : jobs[Len(jobs)][f].st = "err"}

\* the files of the latest call recorded as failed
FailedFiles ==
    {f \in DOMAIN jobs[Len(jobs)] :
        CopiesIn([id |-> <<Len(jobs), f>>, error |-> TRUE], thumbnails) > 0}

\* exactly one job of the latest call, of more than MAX_WORKERS files, was
\* answered with process_error, no other job of it failed, nothing is left
\* to wait for
OneErrorOnly ==
    /\ Len(jobs) >= 1
    /\ Settled
    /\ Files(Len(jobs)) > MAX_WORKERS
    /\ Cardinality(ErrFiles) = 1
    /\ FailedFiles = ErrFiles

\* every other file of the latest call was dispatched and recorded as a success
OthersSucceeded ==
    /\ pendingFiles[Len(jobs)] = <<>>
    /\ \A f \in 1..Files(Len(jobs)) :
          f \notin ErrFiles =>
              /\ jobs[Len(jobs)][f].st = "done"
              /\ CopiesIn([id |-> <<Len(jobs), f>>, error |-> FALSE], thumbnails) = 1

\* C10: if exactly one of N > MAX_WORKERS jobs is answered with
\* process_error and every other answer is a success, then once nothing is
\* left to wait for all other N-1 jobs have been dispatched and recorded as
\* successes.
C10_FaultIsolation == OneErrorOnly => OthersSucceeded

\* C10, as a statement about every run in which reads end and workers
\* answer: the run comes to rest, and at rest the above holds.
C10_EventuallyIsolated == <>[](Settled /\ C10_FaultIsolation)

\* C10 witness: such a batch has run to its end.
C10_Witness == OneErrorOnly /\ OthersSucceeded

\* C11: when worker.postMessage throws for a job, a failure entry is
\* recorded for the job, the worker acquired for it is idle afterwards, and
\* the next pending file (if any) has been taken from the queue.
C11_PostThrowRecovers ==
    [][\A id \in JobIds :
          (jobs[id[1]][id[2]].st = "reading" /\ jobs'[id[1]][id[2]].st = "thrown")
          => /\ CopiesIn([id |-> id, error |-> TRUE], thumbnails')
                    = CopiesIn([id |-> id, error |-> TRUE], thumbnails) + 1
             /\ processedFiles' = processedFiles + 1
             /\ \A i \in DOMAIN workerPool' :
                    workerPool'[i].worker = jobs'[id[1]][id[2]].worker
                        => ~workerPool'[i].busy
             /\ pendingFiles[id[1]] # <<>>
                    => /\ pendingFiles'[id[1]] = Tail(pendingFiles[id[1]])
                       /\ Len(jobs'[id[1]]) = Len(jobs[id[1]]) + 1]_vars

\* C12: when the read of a job's file fails, exactly one failure entry is
\* recorded for the job and processedFiles grows by one; workerPool (its
\* members and their busy flags) and the workers are left as they are, and
\* the next pending file (if any) is taken from the queue.
C12_ReadFailFrame ==
    [][\A id \in JobIds :
          (jobs[id[1]][id[2]].st = "reading" /\ jobs'[id[1]][id[2]].st = "done")
          => /\ CopiesIn([id |-> id, error |-> TRUE], thumbnails')
                    = CopiesIn([id |-> id, error |-> TRUE], thumbnails) + 1
             /\ BagCardinality(thumbnails') = BagCardinality(thumbnails) + 1
             /\ processedFiles' = processedFiles + 1
             /\ workerPool' = workerPool
             /\ workers' = workers
             /\ IF pendingFiles[id[1]] # <<>>
                THEN /\ pendingFiles'[id[1]] = Tail(pendingFiles[id[1]])
                     /\ Len(jobs'[id[1]]) = Len(jobs[id[1]]) + 1
                     /\ jobs'[id[1]][Len(jobs'[id[1]])].st = "reading"
                ELSE /\ pendingFiles' = pendingFiles
                     /\ Len(jobs'[id[1]]) = Len(jobs[id[1]])]_vars

\* C12 witness: the first of four files could not be read while the other
\* two initial reads go on: its failure is recorded, the fourth file has been
\* taken, and the pool is as initializeWorkerPool left it.
C12_Witness ==
    /\ Len(jobs) = 1
    /\ Len(jobs[1]) = 4
    /\ jobs[1][1].st = "done"
    /\ \A f \in 2..4 : jobs[1][f].st = "reading"
    /\ thumbnails = SetToBag({[id |-> <<1, 1>>, error |-> TRUE]})
    /\ processedFiles = 1
    /\ Len(workerPool) = MAX_WORKERS
    /\ BusyWorkers = 0

\* C13: jobs are posted in submission order: when the 'process_psd' message
\* of a file is posted, no file that precedes it in the same batch is still
\* waiting for its own message to be posted.
C13_PostedInOrder ==
    [][\A id \in JobIds :
          (jobs[id[1]][id[2]].st = "reading" /\ jobs'[id[1]][id[2]].st = "sent")
          => \A e \in 1..(id[2] - 1) : jobs[id[1]][e].st # "reading"]_vars

\* the batch has run to its end with every file recorded
BatchComplete ==
    /\ Len(jobs) = 1
    /\ Settled
    /\ pendingFiles[1] = <<>>
    /\ totalFiles = Files(1)
    /\ processedFiles = totalFiles

\* C14: in a single batch of N files where every read and every job
\* succeeds, min(MAX_WORKERS, N) files are started by processFiles itself,
\* the k-th completion starts file number MAX_WORKERS + k while files remain,
\* no worker ever holds two unanswered jobs, and the run ends with
\* processedFiles = totalFiles = N.
C14_HappyPath ==
    /\ [](Len(jobs) = 1 =>
            /\ Len(jobs[1]) = Min(Files(1), MAX_WORKERS + processedFiles)
            /\ \A w \in DOMAIN workers : Cardinality(workers[w].inbox) <= 1)
    /\ [][(Len(jobs) = 1 /\ processedFiles' = processedFiles + 1
                         /\ pendingFiles[1] # <<>>)
          => /\ Len(jobs'[1]) = MAX_WORKERS + processedFiles'
             /\ jobs'[1][MAX_WORKERS + processedFiles'].st = "reading"
             /\ pendingFiles'[1] = Tail(pendingFiles[1])]_vars
    /\ (Len(jobs) = 1) ~> []BatchComplete

\* C14 witness: a batch of more than MAX_WORKERS + 1 files has run to its
\* end, every file recorded as a success.
C14_Witness ==
    /\ BatchComplete
    /\ totalFiles > MAX_WORKERS + 1
    /\ \A f \in 1..totalFiles :
          CopiesIn([id |-> <<1, f>>, error |-> FALSE], thumbnails) = 1
    /\ BusyWorkers = 0

\* the files among the first p of the batch whose outcome is process_error
StoppedBy(p) == {f \in 1..Min(p, Len(jobs[1])) : jobs[1][f].st = "err"}

\* The number of files a batch with these outcomes gets through when its
\* jobs are completed one after the other in submission order: each of the
\* min(MAX_WORKERS, N) chains goes on to the next file until it meets a
\* process_error.
ExpectedTaken ==
    LET N == Files(1)
        ends(p) == p = N \/ Cardinality(StoppedBy(p)) = MAX_WORKERS
    IN  CHOOSE p \in Min(MAX_WORKERS, N)..N :
            ends(p) /\ \A q \in Min(MAX_WORKERS, N)..(p - 1) : ~ends(q)

\* C15: for a given batch and given outcomes of its files, what is recorded
\* at the end does not depend on the order of completion: it is what the
\* in-order run records, one entry for each file that run gets through, and
\* processedFiles is their number.
C15_OrderIndependent ==
    (Len(jobs) = 1 /\ Settled) =>
        /\ Len(jobs[1]) = ExpectedTaken
        /\ processedFiles = ExpectedTaken
        /\ BagCardinality(thumbnails) = ExpectedTaken
        /\ \A f \in 1..ExpectedTaken : Entries(<<1, f>>) = 1

\* C15 witness: a batch of more than MAX_WORKERS files has come to rest with
\* all its files recorded, among them a success, a process_error and another
\* failure.
C15_Witness ==
    /\ Len(jobs) = 1
    /\ Settled
    /\ Files(1) > MAX_WORKERS
    /\ processedFiles = Files(1)
    /\ StoppedBy(Files(1)) # {}
    /\ \E f \in 1..Files(1) :
          CopiesIn([id |-> <<1, f>>, error |-> FALSE], thumbnails) = 1
    /\ \E f \in 1..Files(1) :
          /\ jobs[1][f].st = "done"
          /\ CopiesIn([id |-> <<1, f>>, error |-> TRUE], thumbnails) = 1

\* C16: the call of cleanupWorkerPool posts 'cleanup' to every pool member
\* and leaves workerPool empty, and every worker that was a member is
\* terminated later on.
C16_Teardown ==
    /\ [][(mounted /\ ~mounted')
          => /\ workerPool' = <<>>
             /\ \A i \in DOMAIN workerPool :
                   /\ workers'[workerPool[i].worker].cleanups
                          = workers[workerPool[i].worker].cleanups + 1
                   /\ workers'[workerPool[i].worker].timer]_vars
    /\ \A w \in 1..MaxCreated :
          (w \in DOMAIN workers /\ workers[w].timer)
              ~> (w \in DOMAIN workers /\ workers[w].terminated)

\* C16 witness: the component was unmounted with a full pool and all its
\* workers have been terminated since.
C16_Witness ==
    /\ ~mounted
    /\ Len(workers) >= MAX_WORKERS
    /\ \A w \in 1..MAX_WORKERS : workers[w].terminated /\ ~workers[w].timer
    /\ \A i \in DOMAIN workerPool : workerPool[i].worker > MAX_WORKERS

\* C17: cleanupWorkerPool called twice in a row gives what one call gives.
C17_CleanupIdempotent ==
    LET once  == cleanupWorkerPool(workerPool, workers)
        twice == cleanupWorkerPool(once.pool, once.ws)
    IN  /\ twice = once
        /\ once.pool = <<>>

\* C17 witness: cleanupWorkerPool has run on a full pool whose workers are
\* still alive with their 'cleanup' message unanswered, and nothing has
\* happened since; calling it again changes nothing.
C17_Witness ==
    /\ ~mounted
    /\ workerPool = <<>>
    /\ Len(workers) = MAX_WORKERS
    /\ \A w \in DOMAIN workers :
          workers[w].timer /\ ~workers[w].terminated /\ workers[w].cleanups = 1
    /\ cleanupWorkerPool(workerPool, workers) = [pool |-> workerPool, ws |-> workers]

\* C18: a worker is terminated only when every 'cleanup' message posted to
\* it has been answered with 'cleanup_complete'.
C18_AckBeforeTerminate ==
    [][\A w \in DOMAIN workers :
          (~workers[w].terminated /\ workers'[w].terminated)
              => workers[w].cleanups = 0]_vars

\* C19: the message the worker posts for a request is a process_complete or
\* a process_error carrying the id of that request; answering a request
\* delivers exactly one message, for that request and for no other request
\* the same worker is holding.
C19_OneAnswerSameId ==
    /\ [](\A id \in Outstanding : \A decodable \in BOOLEAN : \A posted \in BOOLEAN :
            /\ psdOnMessage(id, decodable, posted).id = id
            /\ psdOnMessage(id, decodable, posted).type
                   \in {"process_complete", "process_error"})
    /\ [][\A w \in DOMAIN workers : \A id \in workers[w].inbox :
            id \notin workers'[w].inbox
            => /\ workers'[w].inbox = workers[w].inbox \ {id}
               /\ BagCardinality(thumbnails') = BagCardinality(thumbnails) + 1
               /\ CopiesIn([id |-> id, error |-> TRUE], thumbnails')
                      + CopiesIn([id |-> id, error |-> FALSE], thumbnails')
                  = Entries(id) + 1]_vars

\* C19 witness: a worker that was posted two requests has answered one of
\* them; the answer is recorded under the id of its request and the other
\* request is still unanswered.
C19_Witness ==
    \E w \in DOMAIN workers : \E i \in JobIds : \E j \in JobIds :
        /\ i # j
        /\ workers[w].inbox = {i}
        /\ jobs[i[1]][i[2]].st = "sent" /\ jobs[i[1]][i[2]].worker = w
        /\ jobs[j[1]][j[2]].st = "err" /\ jobs[j[1]][j[2]].worker = w
        /\ Entries(i) = 0
        /\ Entries(j) = 1

\* C20: a process_complete message always has success true, and a job that
\* failed in the worker is reported with process_error.
C20_FailureIsProcessError ==
    \A id \in Outstanding : \A decodable \in BOOLEAN : \A posted \in BOOLEAN :
        /\ psdOnMessage(id, decodable, posted).type = "process_complete"
               => psdOnMessage(id, decodable, posted).success
        /\ ~decodable
               => psdOnMessage(id, decodable, posted).type = "process_error"

\* C21: when worker.onerror fires for a worker, the worker is terminated and
\* is no longer a member of workerPool.
C21_FaultedWorkerRemoved ==
    [][\A w \in DOMAIN workers :
          (~workers[w].faulted /\ workers'[w].faulted)
          => /\ workers'[w].terminated
             /\ \A i \in DOMAIN workerPool' : workerPool'[i].worker # w]_vars

\* the workers that hold an unanswered 'process_psd' message carrying id
HoldersOf(id) == {w \in DOMAIN workers : id \in workers[w].inbox}

\* C22: every file is taken from pendingFiles at most once (what is left in
\* the queue are exactly the files not taken yet, in order), and its job is
\* posted at most once, to at most one worker: a message is only ever posted
\* for a job that has not been posted before, and to a single worker.
C22_SentOnce ==
    /\ [](\A b \in DOMAIN jobs :
            /\ pendingFiles[b] =
                   [i \in 1..Len(pendingFiles[b]) |-> Len(jobs[b]) + i]
            /\ \A f \in DOMAIN jobs[b] :
                   /\ Cardinality(HoldersOf(<<b, f>>)) <= 1
                   /\ HoldersOf(<<b, f>>) # {}
                          => /\ jobs[b][f].st = "sent"
                             /\ HoldersOf(<<b, f>>) = {jobs[b][f].worker})
    /\ [][\A w \in DOMAIN workers' : \A id \in workers'[w].inbox :
            (w \notin DOMAIN workers \/ id \notin workers[w].inbox)
            => /\ id \in JobIds
               /\ jobs[id[1]][id[2]].st = "reading"
               /\ jobs[id[1]][id[2]].rec = 0]_vars

\* C22 witness: all files of two overlapping batches have been taken and
\* posted, one of them to a worker that already held another job.
C22_Witness ==
    /\ Len(jobs) = 2
    /\ \A b \in DOMAIN jobs : pendingFiles[b] = <<>>
    /\ Cardinality(JobIds) = MAX_WORKERS + 1
    /\ \A id \in JobIds : jobs[id[1]][id[2]].st = "sent"
    /\ \E w \in DOMAIN workers : Cardinality(workers[w].inbox) = 2

\* C23: as long as a posted job is unanswered, no outcome is recorded for it,
\* the worker it was posted to is a busy pool member, and isProcessing is
\* true.
C23_UnansweredStaysSent ==
    \A id \in JobIds :
        jobs[id[1]][id[2]].st = "sent" =>
            /\ jobs[id[1]][id[2]].rec = 0
            /\ Entries(id) = 0
            /\ \E i \in DOMAIN workerPool :
                   /\ workerPool[i].worker = jobs[id[1]][id[2]].worker
                   /\ workerPool[i].busy
            /\ isProcessing

\* C24: a pool member is busy exactly when its worker holds a posted job
\* whose completion or failure the page has not handled yet.
C24_BusyIffJobOutstanding ==
    \A i \in DOMAIN workerPool :
        workerPool[i].busy <=> workers[workerPool[i].worker].inbox # {}

C26_LastAnswerCleansUp ==
    [][\A w \in DOMAIN workers : \A id \in workers[w].inbox :
       \A kind \in ReplyKinds :
          (Reply(w, id, kind) /\ processedFiles' >= totalFiles')
          => /\ ~isProcessing'
             /\ workers'[w].cleanups = workers[w].cleanups + 1]_vars

\* C27: once a job's outcome has been recorded its per-job listener is
\* detached, and when a batch has all its outcomes recorded activePromises
\* is empty and no worker has a per-job listener attached.
C27_ListenersRemoved ==
    /\ \A w \in DOMAIN workers : \A id \in workers[w].listeners :
          id \in JobIds /\ jobs[id[1]][id[2]].rec = 0
    /\ (Len(jobs) = 1 /\ Settled /\ pendingFiles[1] = <<>>
                      /\ processedFiles = totalFiles)
          => /\ activePromises[1] = {}
             /\ \A w \in DOMAIN workers : workers[w].listeners = {}

\* C28: once the unmount hook has run, no Worker is constructed any more and
\* workerPool stays empty.
C28_NoWorkerAfterUnmount ==
    [][~mounted => /\ Len(workers') = Len(workers)
                   /\ workerPool' = <<>>]_vars

\* C29: the answer to a job of an earlier processFiles call leaves the
\* thumbnails and processedFiles of the latest call as they are.
C29_OldBatchIgnored ==
    [][\A w \in DOMAIN workers : \A id \in workers[w].inbox :
       \A kind \in ReplyKinds :
          (Reply(w, id, kind) /\ id[1] < Len(jobs))
          => UNCHANGED <<thumbnails, processedFiles>>]_vars

\* C30: when the batch has all its outcomes recorded (processedFiles =
\* totalFiles > 0, nothing pending, being read or unanswered), isProcessing
\* is false.
C30_DoneMeansNotProcessing ==
    (/\ Len(jobs) = 1
     /\ Settled
     /\ pendingFiles[1] = <<>>
     /\ totalFiles > 0
     /\ processedFiles = totalFiles)
    => ~isProcessing

(* ============== properties of the single-worker demo page =============== *)

\* Workers of the page that were not terminated
SingleLive == {w \in 1..Len(single.workers) : ~single.workers[w].terminated}

\* C31: while the page is mounted, the result handler terminates a worker
\* only when no task posted to it is unanswered, so a task started while
\* another one runs is never discarded without a result.
C31_NoTaskDiscarded ==
    [][\A w \in 1..Len(single.workers) :
          ( /\ ~single.workers[w].terminated
            /\ single'.workers[w].terminated
            /\ single'.mounted = "yes" )
          => single'.workers[w].tasks = 0]_vars

\* C32: at most one Worker of the page is not terminated, and `worker` is
\* non-null exactly when it refers to such a Worker.
C32_OneLiveWorker ==
    /\ Cardinality(SingleLive) <= 1
    /\ single.worker # 0 => single.worker \in SingleLive
    /\ single.worker = 0 => SingleLive = {}

\* a second Worker was created after the first was terminated by a result,
\* and it is working
C32_Witness ==
    /\ Len(single.workers) >= 2
    /\ single.workers[1].terminated
    /\ single.worker = 2
    /\ single.workers[2].tasks > 0
    /\ single.mounted = "yes"

(* ================ properties of the multi-worker demo =================== *)

\* the Workers created by run r
WorkersOf(r) == {w \in 1..Len(multi.all) : multi.all[w].run = r}

\* C33: with count >= 2 the combined status of a run is shown exactly once,
\* and only after each of its workers reported exactly one result
\* (completedWorkers never exceeds count); when it is shown every worker of
\* the run is terminated and `workers` is empty.
C33_AllDoneOnce ==
    /\ [](\A r \in 1..Len(multi.runs) :
             multi.runs[r].count >= 2 =>
                /\ multi.runs[r].completedWorkers <= multi.runs[r].count
                /\ multi.runs[r].shown <= 1
                /\ \A w \in WorkersOf(r) : multi.all[w].reported <= 1
                /\ multi.runs[r].shown = 1 <=>
                      \A w \in WorkersOf(r) : multi.all[w].reported = 1
                /\ multi.runs[r].shown = 1 =>
                      \A w \in WorkersOf(r) : multi.all[w].terminated)
    /\ [][\A r \in 1..Len(multi.runs) :
             multi'.runs[r].shown > multi.runs[r].shown => multi'.workers = <<>>]_vars

\* a run of three workers has shown its combined status
C33_Witness ==
    \E r \in 1..Len(multi.runs) :
        /\ multi.runs[r].count = 3
        /\ multi.runs[r].shown = 1
        /\ multi.status = [kind |-> "All done (Workers terminated)", run |-> r]

\* C34: startTask terminates every worker of the previous run first, so a
\* result of an earlier run is never added to the new run's totalResult or
\* completedWorkers, nor shown as the final status once a new run began.
C34_PreviousRunSilenced ==
    /\ [][Len(multi'.runs) > Len(multi.runs) =>
             \A w \in 1..Len(multi.all) : multi'.all[w].terminated]_vars
    /\ [](\A r \in 1..Len(multi.runs) :
             /\ multi.runs[r].totalResult \subseteq WorkersOf(r)
             /\ multi.runs[r].count >= 2 =>
                   multi.runs[r].completedWorkers =
                      Cardinality({w \in WorkersOf(r) : multi.all[w].reported = 1}))
    /\ [](multi.status.kind # "Idle" => multi.status.run = Len(multi.runs))
    /\ [](\A w \in 1..Len(multi.all) :
             ~multi.all[w].terminated => multi.all[w].run = Len(multi.runs))

\* a second run finished while a worker of the first run never reported
C34_Witness ==
    /\ Len(multi.runs) = 2
    /\ multi.runs[1].count >= 2
    /\ multi.runs[1].completedWorkers = 1
    /\ multi.runs[2].count >= 2
    /\ multi.runs[2].shown = 1

\* how many Workers of run r iterate index k
TimesProcessed(r, k) ==
    Cardinality({w \in WorkersOf(r) : k \in rangeIndexes(multi.all[w])})

LifecycleLive == {w \in 1..Len(lifecycle.workers) : ~lifecycle.workers[w].terminated}

\* C36: at most one Worker of the lifecycle page is live; createWorker
\* terminates an existing worker before the new one exists, and after
\* terminateWorker or unmount no Worker is live and `worker` is null.
C36_OneLifecycleWorker ==
    /\ [](/\ Cardinality(LifecycleLive) <= 1
          /\ lifecycle.worker # 0 => lifecycle.worker \in LifecycleLive
          /\ lifecycle.worker = 0 => LifecycleLive = {})
    /\ [][Len(lifecycle'.workers) > Len(lifecycle.workers) =>
             \A w \in 1..Len(lifecycle.workers) : lifecycle'.workers[w].terminated]_vars
    /\ [][LcTerminateWorker \/ LcUnmount =>
             /\ lifecycle'.worker = 0
             /\ \A w \in 1..Len(lifecycle'.workers) : lifecycle'.workers[w].terminated]_vars

\* a second worker was created while the first one existed
C36_Witness ==
    /\ Len(lifecycle.workers) = 2
    /\ lifecycle.workers[1].terminated
    /\ lifecycle.workers[1].started
    /\ lifecycle.worker = 2
    /\ lifecycle.status = <<"Worker created">>

\* C37: the worker posts INIT once, before any other message, and each PING
\* it takes sets the timeout whose expiry posts one PONG with that PING's
\* data (the page sends no message of another type but ERROR).
C37_LifecycleProtocol ==
    /\ [](\A w \in 1..Len(lifecycle.workers) :
             LET me == lifecycle.workers[w]
             IN  /\ me.posted # <<>> => me.posted[1].type = "INIT"
                 /\ Cardinality({n \in 1..Len(me.posted) : me.posted[n].type = "INIT"}) <= 1)
    /\ [][\A w \in 1..Len(lifecycle.workers) :
             LET me == lifecycle.workers[w]
             IN  ( /\ me.inbox # <<>>
                   /\ Head(me.inbox).type = "PING"
                   /\ lifecycle'.workers[w].inbox = Tail(me.inbox)
                   /\ ~lifecycle'.workers[w].terminated )
                 => lifecycle'.workers[w].timers =
                       Append(me.timers, Head(me.inbox).data)]_vars
    /\ [][\A w \in 1..Len(lifecycle.workers) :
             LET me == lifecycle.workers[w]
             IN  ( /\ me.timers # <<>>
                   /\ lifecycle'.workers[w].timers = Tail(me.timers) )
                 => lifecycle'.workers[w].posted =
                       Append(me.posted, [type |-> "PONG", data |-> Head(me.timers)])]_vars

(* ================= properties of the main-thread viewer ================= *)

\* C38: one processFiles run over N files ends, and ends with exactly N
\* entries in thumbnails in input order, processedFiles = totalFiles = N
\* and isProcessing false, whichever files succeed or fail.
C38_PlainRunCompletes ==
    /\ [](plain.files > 0 /\ ~plain.running =>
             /\ Len(plain.thumbnails) = plain.files
             /\ \A k \in 1..Len(plain.thumbnails) : plain.thumbnails[k].file = k
             /\ plain.processedFiles = plain.files
             /\ plain.totalFiles = plain.files
             /\ ~plain.isProcessing)
    /\ (plain.running ~> ~plain.running)

\* a run of three files ended; the second file failed, the others did not
C38_Witness ==
    /\ plain.files = 3
    /\ ~plain.running
    /\ ~plain.thumbnails[1].error
    /\ plain.thumbnails[2].error
    /\ ~plain.thumbnails[3].error

====
